---- MODULE Spec2Model ----
(***************************************************************************)
(* A model of load_confounds.py (SIMEXP/fmri_loader): selection of         *)
(* nuisance regressors from an fMRIPrep confounds table.                   *)
(*                                                                         *)
(* Python values are modelled as follows.                                  *)
(*   - str: a TLA+ string; f-strings and + are \o, "a in b" on strings is  *)
(*     the substring test Contains.                                        *)
(*   - list: a sequence.                                                   *)
(*   - a value whose Python type the code inspects with isinstance         *)
(*     is a record [type, val].                                            *)
(*   - pandas.DataFrame: a record [columns, index, data]; data[c][p] is    *)
(*     the cell of the c-th column at the p-th row, index[p] is the row    *)
(*     label of the p-th row.                                              *)
(*   - a cell: <<"raw", c, r>> is the number read from column c, row       *)
(*     label r of a source table (so that any move of a value to another   *)
(*     row or column is visible), <<"nan", 0, 0>> is a missing value and   *)
(*     <<"pca", k, r>> is the k-th principal component score of the        *)
(*     sample built from source row r.                                     *)
(*   - an exception: a record [type, msg]; NoError stands for "nothing     *)
(*     raised".                                                            *)
(***************************************************************************)
EXTENDS Integers, Sequences, FiniteSets, TLC

\* ------------------------------------------------------------------ bounds

\* Number of rows (time points) of the largest input table.
MaxRows == 2

\* Longest list of inputs handed to load_confounds.
MaxInputs == 2

\* Longest list of base names handed to _add_suffix in the unit harness.
MaxBases == 2

\* Longest custom strategy list.
MaxStrategyLen == 2

\* Longest list of keywords handed to _find_confounds in the unit harness.
MaxKeywords == 2

\* pca_motion is a float; the model holds it in tenths, so that PcaScale is
\* the 1 of line 80.
PcaScale == 10

\* ----------------------------------------------------------- Python helpers

Range(s) == {s[i] : i \in 1..Len(s)}

\* Python "key in col" for two strings.
Contains(col, key) ==
    \E i \in 1..(Len(col) - Len(key) + 1) : SubSeq(col, i, i + Len(key) - 1) = key

\* Python s[-n:].
Tail_n(s, n) == IF Len(s) <= n THEN s ELSE SubSeq(s, Len(s) - n + 1, Len(s))

\* Index of the first occurrence of sub in s at or after position from, 0 if none.
IndexOf(s, sub, from) ==
    LET hits == {i \in from..(Len(s) - Len(sub) + 1) : SubSeq(s, i, i + Len(sub) - 1) = sub}
    IN  IF hits = {} THEN 0 ELSE CHOOSE i \in hits : \A j \in hits : i <= j

\* Python s.split(sep)[1], for s holding sep at least once.
SplitSecond(s, sep) ==
    LET a == IndexOf(s, sep, 1) + Len(sep)
        b == IndexOf(s, sep, a)
    IN  IF b = 0 THEN SubSeq(s, a, Len(s)) ELSE SubSeq(s, a, b - 1)

\* Python s.replace(old, new), for s holding old at most once.
Replace(s, old, new) ==
    LET a == IndexOf(s, old, 1)
    IN  IF a = 0 THEN s
        ELSE SubSeq(s, 1, a - 1) \o new \o SubSeq(s, a + Len(old), Len(s))

NoError == [type |-> "none", msg |-> ""]
ValueError(m) == [type |-> "ValueError", msg |-> m]

\* ------------------------------------------------------------ pandas helpers

NaN == <<"nan", 0, 0>>

\* pd.DataFrame()
EmptyDataFrame == [columns |-> <<>>, index |-> <<>>, data |-> <<>>]

\* Position of the column called name (column names of a table are unique).
ColPos(df, name) == CHOOSE c \in 1..Len(df.columns) : df.columns[c] = name

\* df[names]: the named columns in the order of names, rows untouched.
SelectColumns(df, names) ==
    [columns |-> names,
     index   |-> df.index,
     data    |-> [i \in 1..Len(names) |-> df.data[ColPos(df, names[i])]]]

\* Position of row label l in idx, 0 if absent.
RowPos(idx, l) ==
    IF \E p \in 1..Len(idx) : idx[p] = l
    THEN CHOOSE p \in 1..Len(idx) : idx[p] = l
    ELSE 0

\* df.reindex(idx): rows looked up by label, missing ones filled with NaN.
Reindex(df, idx) ==
    [c \in 1..Len(df.columns) |->
        [p \in 1..Len(idx) |->
            IF RowPos(df.index, idx[p]) = 0 THEN NaN
            ELSE df.data[c][RowPos(df.index, idx[p])]]]

\* pd.concat([a, b], axis=1): outer join on the row labels; the labels of a,
\* then those of b that a lacks.
ConcatColumns(a, b) ==
    LET idx == a.index \o SelectSeq(b.index, LAMBDA l : RowPos(a.index, l) = 0)
    IN  [columns |-> a.columns \o b.columns,
         index   |-> idx,
         data    |-> Reindex(a, idx) \o Reindex(b, idx)]

\* Positions of the rows of df without a missing value, in order.
RECURSIVE CompleteRows(_, _)
CompleteRows(df, p) ==
    IF p > Len(df.index) THEN <<>>
    ELSE (IF \A c \in 1..Len(df.columns) : df.data[c][p] # NaN THEN <<p>> ELSE <<>>)
         \o CompleteRows(df, p + 1)

\* df.dropna(): the rows without a missing value, labels kept.
DropNa(df) ==
    LET keep == CompleteRows(df, 1)
    IN  [columns |-> df.columns,
         index   |-> [q \in 1..Len(keep) |-> df.index[keep[q]]],
         data    |-> [c \in 1..Len(df.columns) |->
                        [q \in 1..Len(keep) |-> df.data[c][keep[q]]]]]

Min(a, b) == IF a < b THEN a ELSE b

\* A function call either raises or returns a value.
Raise(e) == [error |-> e, returned |-> FALSE, value |-> <<>>]
Return(v) == [error |-> NoError, returned |-> TRUE, value |-> v]

\* ------------------------------------------------------------- _add_suffix

\* AppendSuffixes with the tests of lines 17 and 19 in the other order.
AppendSuffixesPower2First(heap, params_full, par, model) ==
    LET h1 == IF (model = "power2") \/ (model = "full")
              THEN [heap EXCEPT ![params_full] = Append(@, par \o "_power2")]
              ELSE heap
        h2 == IF (model = "derivatives") \/ (model = "full")
              THEN [h1 EXCEPT ![params_full] = Append(@, par \o "_derivative1")]
              ELSE h1
        h3 == IF model = "full"
              THEN [h2 EXCEPT ![params_full] = Append(@, par \o "_derivative1_power2")]
              ELSE h2
    IN  h3

\* One pass of the body of "for par in params" (lines 17-22): the names the
\* model asks for are appended to the list object params_full of the heap.
AppendSuffixes(heap, params_full, par, model) ==
    LET h1 == IF (model = "derivatives") \/ (model = "full")
              THEN [heap EXCEPT ![params_full] = Append(@, par \o "_derivative1")]
              ELSE heap
        h2 == IF (model = "power2") \/ (model = "full")
              THEN [h1 EXCEPT ![params_full] = Append(@, par \o "_power2")]
              ELSE h1
        h3 == IF model = "full"
              THEN [h2 EXCEPT ![params_full] = Append(@, par \o "_derivative1_power2")]
              ELSE h2
    IN  h3

\* "for par in params" (line 16): the list object params is read at position
\* i on every pass, the list object params_full grows.
RECURSIVE AddSuffixFor(_, _, _, _, _)
AddSuffixFor(heap, params, params_full, i, model) ==
    IF i > Len(heap[params]) THEN heap
    ELSE AddSuffixFor(AppendSuffixes(heap, params_full, heap[params][i], model),
                      params, params_full, i + 1, model)

\* AddSuffixHeap with params_full = [] in place of params.copy().
AddSuffixHeapFromEmpty(params, model) ==
    AddSuffixFor([caller |-> params, copy |-> <<>>], "caller", "copy", 1, model)

\* The two list objects at the return of _add_suffix: the caller's list and
\* the list made by params.copy() (line 15).
AddSuffixHeap(params, model) ==
    AddSuffixFor([caller |-> params, copy |-> params], "caller", "copy", 1, model)

\* _add_suffix(params, model): the list it returns.
_add_suffix(params, model) == AddSuffixHeap(params, model).copy

\* ----------------------------------------------------------- _check_params

MissingMsg(par) ==
    "The parameter " \o par \o " cannot be found in the available confounds. You may want to use a different denoising strategy'"

\* _check_params that goes through params to the end and reports the last
\* name it missed.
CheckParamsLast(confounds_raw, params) ==
    LET missing == {i \in 1..Len(params) : params[i] \notin Range(confounds_raw.columns)}
    IN  IF missing = {} THEN NoError
        ELSE ValueError(MissingMsg(params[CHOOSE i \in missing : \A j \in missing : i >= j]))

\* _check_params(confounds_raw, params): the exception it raises, NoError if
\* none. The loop raises at the first par that is no column.
_check_params(confounds_raw, params) ==
    LET missing == {i \in 1..Len(params) : params[i] \notin Range(confounds_raw.columns)}
    IN  IF missing = {} THEN NoError
        ELSE ValueError(MissingMsg(params[CHOOSE i \in missing : \A j \in missing : i <= j]))

\* ---------------------------------------------------------- _find_confounds

NoMatchMsg(key) == "could not find any confound with the key " \o key

\* ColumnsWithKey with col.startswith(key) in place of "key in col".
ColumnsWithKeyPrefix(confounds_raw, key) ==
    SelectSeq(confounds_raw.columns,
              LAMBDA col : Len(key) <= Len(col) /\ SubSeq(col, 1, Len(key)) = key)

\* The columns of the table whose name holds key, in table order (lines 42-45).
ColumnsWithKey(confounds_raw, key) ==
    SelectSeq(confounds_raw.columns, LAMBDA col : Contains(col, key))

\* "for key in keywords" from position i on, list_confounds so far in acc.
RECURSIVE FindConfoundsFor(_, _, _, _)
FindConfoundsFor(confounds_raw, keys, i, acc) ==
    IF i > Len(keys) THEN Return(acc)
    ELSE IF ColumnsWithKey(confounds_raw, keys[i]) = <<>>
         THEN Raise(ValueError(NoMatchMsg(keys[i])))
         ELSE FindConfoundsFor(confounds_raw, keys, i + 1,
                               acc \o ColumnsWithKey(confounds_raw, keys[i]))

\* _find_confounds(confounds_raw, keywords); keywords is [type, val].
_find_confounds(confounds_raw, keywords) ==
    IF keywords.type # "list" THEN Raise(ValueError("keywords should be a list"))
    ELSE FindConfoundsFor(confounds_raw, keywords.val, 1, <<>>)

\* ------------------------------------------------------------ _pca_motion

\* pd.DataFrame(pca.fit_transform(motion.values)) with its columns renamed
\* (lines 90-91), for a decomposition that keeps K components: a fresh table
\* with row labels 0..n-1 and columns 0..K-1 named "motion_pca_" + str(col + 1);
\* the p-th row holds the scores of the p-th sample of motion.
PcaFrame(motion, K) ==
    [columns |-> [c \in 1..K |-> "motion_pca_" \o ToString((c - 1) + 1)],
     index   |-> [p \in 1..Len(motion.index) |-> p - 1],
     data    |-> [c \in 1..K |->
                    [p \in 1..Len(motion.index) |-> <<"pca", c, motion.data[1][p][3]>>]]]

\* _pca_motion(motion, n_components): the outcomes the call can have. The
\* decomposition is a black box: it refuses an array without samples and
\* otherwise keeps some K in 1..min(n_samples, n_features) components.
_pca_motion(motion, n_components) ==
    LET dropped == DropNa(motion)
        n_samples == Len(dropped.index)
        n_features == Len(dropped.columns)
    IN  IF n_samples = 0
        THEN {Raise(ValueError("Found array with 0 sample(s) while a minimum of 1 is required."))}
        ELSE {Return(PcaFrame(dropped, K)) : K \in 1..Min(n_samples, n_features)}

\* -------------------------------------------------------- category loaders

\* _load_global(confounds_raw, global_signal)
_load_global(confounds_raw, global_signal) ==
    LET global_params == _add_suffix(<<"global_signal">>, global_signal)
        e == _check_params(confounds_raw, global_params)
    IN  IF e # NoError THEN Raise(e)
        ELSE Return(SelectColumns(confounds_raw, global_params))

\* _load_wm_csf(confounds_raw, wm_csf)
_load_wm_csf(confounds_raw, wm_csf) ==
    LET wm_csf_params == _add_suffix(<<"csf", "white_matter">>, wm_csf)
        e == _check_params(confounds_raw, wm_csf_params)
    IN  IF e # NoError THEN Raise(e)
        ELSE Return(SelectColumns(confounds_raw, wm_csf_params))

\* _load_high_pass(confounds_raw)
_load_high_pass(confounds_raw) ==
    LET found == _find_confounds(confounds_raw, [type |-> "list", val |-> <<"cosine">>])
    IN  IF ~found.returned THEN Raise(found.error)
        ELSE Return(SelectColumns(confounds_raw, found.value))

\* PcaRequested with "<= 1" in place of "< 1".
PcaRequestedClosed(pca_motion) == (pca_motion > 0) /\ (pca_motion <= PcaScale)

\* The condition of line 80, pca_motion in tenths.
PcaRequested(pca_motion) == (pca_motion > 0) /\ (pca_motion < PcaScale)

\* _load_motion(confounds_raw, motion, pca_motion): the outcomes the call can
\* have (more than one only through _pca_motion).
_load_motion(confounds_raw, motion, pca_motion) ==
    LET motion_params ==
            _add_suffix(<<"trans_x", "trans_y", "trans_z", "rot_x", "rot_y", "rot_z">>, motion)
        e == _check_params(confounds_raw, motion_params)
    IN  IF e # NoError THEN {Raise(e)}
        ELSE IF PcaRequested(pca_motion)
             THEN _pca_motion(SelectColumns(confounds_raw, motion_params), pca_motion)
             ELSE {Return(SelectColumns(confounds_raw, motion_params))}

\* ------------------------------------------------------ _sanitize_strategy

init_strategy ==
    [s \in {"minimal", "minimal_glob"} |->
        IF s = "minimal" THEN <<"motion", "high_pass", "wm_csf">>
        ELSE <<"motion", "high_pass", "wm_csf", "global">>]

all_confounds == <<"motion", "high_pass", "wm_csf", "global">>

\* _sanitize_strategy that hands back a custom list in the canonical order.
SanitizeStrategySorted(strategy) ==
    IF strategy.type = "str"
    THEN IF strategy.val \notin DOMAIN init_strategy
         THEN Raise(ValueError("strategy " \o strategy.val \o " is not supported"))
         ELSE Return(init_strategy[strategy.val])
    ELSE IF strategy.type = "list"
         THEN LET bad == {i \in 1..Len(strategy.val) : strategy.val[i] \notin Range(all_confounds)}
              IN  IF bad = {}
                  THEN Return(SelectSeq(all_confounds, LAMBDA c : c \in Range(strategy.val)))
                  ELSE Raise(ValueError(strategy.val[CHOOSE i \in bad : \A j \in bad : i <= j]
                                        \o " is not a supported type of confounds."))
         ELSE Raise(ValueError("strategy needs to be a string or a list of strings"))

\* _sanitize_strategy(strategy); strategy is [type, val].
_sanitize_strategy(strategy) ==
    IF strategy.type = "str"
    THEN IF strategy.val \notin DOMAIN init_strategy
         THEN Raise(ValueError("strategy " \o strategy.val \o " is not supported"))
         ELSE Return(init_strategy[strategy.val])
    ELSE IF strategy.type = "list"
         THEN LET bad == {i \in 1..Len(strategy.val) : strategy.val[i] \notin Range(all_confounds)}
              IN  IF bad = {} THEN Return(strategy.val)
                  ELSE Raise(ValueError(strategy.val[CHOOSE i \in bad : \A j \in bad : i <= j]
                                        \o " is not a supported type of confounds."))
         ELSE Raise(ValueError("strategy needs to be a string or a list of strings"))

\* ------------------------------------------------- tables and files at hand

\* A table read from a confounds file: row labels 0..nrows-1, every cell its
\* own number, except that the columns whose name holds nanKey miss their
\* value in the rows nanRows.
MakeTable(columns, nrows, nanKey, nanRows) ==
    [columns |-> columns,
     index   |-> [p \in 1..nrows |-> p - 1],
     data    |-> [c \in 1..Len(columns) |->
                    [p \in 1..nrows |->
                        IF Contains(columns[c], nanKey) /\ (p - 1) \in nanRows
                        THEN NaN ELSE <<"raw", c, p - 1>>]]]

\* The four columns fMRIPrep writes for each base signal, in its order.
RECURSIVE FmriprepColumns(_)
FmriprepColumns(bases) ==
    IF bases = <<>> THEN <<>>
    ELSE << Head(bases), Head(bases) \o "_derivative1",
            Head(bases) \o "_derivative1_power2", Head(bases) \o "_power2" >>
         \o FmriprepColumns(Tail(bases))

\* A complete fMRIPrep table; a derivative has no value at the first time point.
TableFull ==
    MakeTable(FmriprepColumns(<<"global_signal", "csf", "white_matter">>)
                \o <<"cosine00", "cosine01">>
                \o FmriprepColumns(<<"trans_x", "trans_y", "trans_z", "rot_x", "rot_y", "rot_z">>),
              MaxRows, "derivative1", {0})

\* Base signals only, columns in another order; rot_x misses its last value.
TableBasic ==
    MakeTable(<<"csf", "rot_z", "rot_y", "rot_x", "cosine00", "trans_x", "trans_y",
                "trans_z", "global_signal", "white_matter">>,
              MaxRows, "rot_x", {MaxRows - 1})

\* The six basic motion columns alone, one time point, rot_z missing.
TableMotion6 ==
    MakeTable(<<"trans_x", "trans_y", "trans_z", "rot_x", "rot_y", "rot_z">>, 1, "rot_z", {0})

\* Two high-pass regressors and one motion column.
TableCosine == MakeTable(<<"cosine00", "cosine01", "trans_x">>, 1, "none", {})

TableNames == {"full", "basic", "motion6", "cosine"}

\* The DataFrame object called name.
DataFrameObj(name) ==
    CASE name = "full" -> TableFull
      [] name = "basic" -> TableBasic
      [] name = "motion6" -> TableMotion6
      [] name = "cosine" -> TableCosine

\* The confounds files on disk: path -> the table the file holds.
FileSystem ==
    [path \in {"sub-01_desc-confounds_regressors.tsv", "sub-02_desc-confounds_regressors.tsv"} |->
        IF path = "sub-01_desc-confounds_regressors.tsv" THEN "full" ELSE "basic"]

\* pd.read_csv(path, delimiter="\t", encoding="utf-8")
read_csv(path) ==
    IF path \in DOMAIN FileSystem THEN Return(FileSystem[path])
    ELSE Raise([type |-> "FileNotFoundError", msg |-> path])

\* ---------------------------------------- _confounds2df, _sanitize_confounds

\* _confounds2df(confounds_raw); confounds_raw is [type, val], a DataFrame
\* (val names the object) or a str. The value returned names the DataFrame.
_confounds2df(confounds_raw) ==
    IF confounds_raw.type # "DataFrame"
    THEN IF Contains(Tail_n(confounds_raw.val, 6), "nii")
         THEN LET suffix == "_space-" \o SplitSecond(confounds_raw.val, "space-")
              IN  read_csv(Replace(confounds_raw.val, suffix, "_desc-confounds_regressors.tsv"))
         ELSE read_csv(confounds_raw.val)
    ELSE Return(confounds_raw.val)

\* _sanitize_confounds(confounds_raw): the pair (confounds_raw, flag_single).
_sanitize_confounds(confounds_raw) ==
    LET flag_single == (confounds_raw.type = "str") \/ (confounds_raw.type = "DataFrame")
        wrapped == IF flag_single THEN [type |-> "list", val |-> <<confounds_raw>>]
                   ELSE confounds_raw
    IN  IF wrapped.type # "list" THEN Raise(ValueError("Invalid input type"))
        ELSE Return([confounds_raw |-> wrapped.val, flag_single |-> flag_single])

\* -------------------------------------------------- _load_confounds_single

\* One "if <category> in strategy" block of _load_confounds_single applied to
\* the outcomes so far: a run that raised stays raised, a run whose strategy
\* lacks the category is untouched, another run concatenates what the loader
\* returns or raises what the loader raises.
LoaderBlock(runs, category, strategy, outcomes) ==
    UNION { IF ~run.returned \/ category \notin Range(strategy) THEN {run}
            ELSE { IF o.returned THEN Return(ConcatColumns(run.value, o.value))
                   ELSE Raise(o.error) : o \in outcomes }
          : run \in runs }

\* _load_confounds_single(...) as a whole: the outcomes of one call.
_load_confounds_single(confounds_raw, strategy, motion, pca_motion, wm_csf, global_signal) ==
    LET df == _confounds2df(confounds_raw)
        resolved == _sanitize_strategy(strategy)
    IN  IF ~df.returned THEN {Raise(df.error)}
        ELSE IF ~resolved.returned THEN {Raise(resolved.error)}
        ELSE LET raw == DataFrameObj(df.value)
                 b0 == {Return(EmptyDataFrame)}
                 b1 == LoaderBlock(b0, "motion", resolved.value,
                                   _load_motion(raw, motion, pca_motion))
                 b2 == LoaderBlock(b1, "high_pass", resolved.value, {_load_high_pass(raw)})
                 b3 == LoaderBlock(b2, "wm_csf", resolved.value, {_load_wm_csf(raw, wm_csf)})
                 b4 == LoaderBlock(b3, "global", resolved.value,
                                   {_load_global(raw, global_signal)})
             IN  b4

\* ------------------------------------------------------------------- state

VARIABLES
    args,     \* the arguments of the call of load_confounds
    pc,       \* where the call stands
    lc,       \* locals of load_confounds: confounds_raw, flag_single, next, confounds_out
    single,   \* locals of _load_confounds_single: confounds_raw, strategy, confounds
    invoked,  \* the category loaders called for the current input, in call order
    error,    \* the exception that left load_confounds, NoError if none
    result,   \* the value load_confounds returned
    call,     \* unit harness: the function called and its arguments
    ret       \* unit harness: the outcome of that call

vars == <<args, pc, lc, single, invoked, error, result, call, ret>>

NoResult == [type |-> "none", val |-> <<>>]
Idle == [fn |-> "idle", args |-> <<>>]

\* ------------------------------------------------------------------ inputs

PyStr(v) == [type |-> "str", val |-> v]
PyList(v) == [type |-> "list", val |-> v]
PyInt(v) == [type |-> "int", val |-> v]
PyDataFrame(name) == [type |-> "DataFrame", val |-> name]

\* Sequences over S of length at most n.
SeqUpTo(S, n) == UNION {[1..k -> S] : k \in 0..n}

Modes == {"basic", "derivatives", "power2", "full"}

\* One input: a table, the path of a confounds file, or the path of an image
\* whose confounds file lies beside it.
SingleInputs ==
    {PyDataFrame(n) : n \in TableNames}
    \cup {PyStr("sub-02_desc-confounds_regressors.tsv"), PyStr("sub-01_space-MNI_bold.nii.gz")}

\* The inputs of a list of inputs.
BatchInputs == {PyDataFrame("full"), PyDataFrame("cosine")}

\* A list of inputs.
BatchArgs == {PyList(l) : l \in SeqUpTo(BatchInputs, MaxInputs)}

\* The presets, a string that is none, a number, every list of categories
\* up to MaxStrategyLen long, and two lists with entries that are none.
StrategyArgs ==
    {PyStr("minimal"), PyStr("minimal_glob"), PyStr("bogus"), PyInt(42)}
    \cup {PyList(l) : l \in SeqUpTo(Range(all_confounds), MaxStrategyLen)}
    \cup {PyList(<<"bogus">>), PyList(<<"high_pass", "bogus", "nope">>)}

\* The strategies tried on lists of inputs.
BatchStrategyArgs ==
    {PyStr("minimal"), PyStr("minimal_glob"), PyList(<<"high_pass">>),
     PyList(<<"wm_csf", "high_pass">>), PyList(<<"bogus">>)}

\* pca_motion in tenths: 0, 0.5 and 1 (the default).
PcaArgs == {0, 5, PcaScale}

\* The calls of load_confounds: one input (or a number in its place) under
\* every strategy, or a list of inputs under the strategies chosen for lists.
ArgSets ==
    [confounds_raw : SingleInputs \cup {PyInt(42)}, strategy : StrategyArgs, motion : Modes,
     pca_motion : PcaArgs, wm_csf : {"basic", "full"}, global_signal : {"basic", "full"}]
    \cup
    [confounds_raw : BatchArgs, strategy : BatchStrategyArgs, motion : Modes,
     pca_motion : PcaArgs, wm_csf : {"basic", "full"}, global_signal : {"basic", "full"}]

\* ----------------------------------------------------------- load_confounds

Init ==
    /\ args \in ArgSets
    /\ pc = "call"
    /\ lc = [confounds_raw |-> <<>>, flag_single |-> FALSE, next |-> 1, confounds_out |-> <<>>]
    /\ single = [confounds_raw |-> "", strategy |-> <<>>, confounds |-> EmptyDataFrame]
    /\ invoked = <<>>
    /\ error = NoError
    /\ result = NoResult
    /\ call = Idle
    /\ ret = Raise(NoError)

\* Lines 231-232: the input is made a list; confounds_out = [].
SanitizeConfounds ==
    /\ pc = "call"
    /\ LET r == _sanitize_confounds(args.confounds_raw)
       IN  IF r.returned
           THEN /\ lc' = [confounds_raw |-> r.value.confounds_raw,
                          flag_single |-> r.value.flag_single,
                          next |-> 1, confounds_out |-> <<>>]
                /\ pc' = "for"
                /\ UNCHANGED error
           ELSE /\ pc' = "raised"
                /\ error' = r.error
                /\ UNCHANGED lc
    /\ UNCHANGED <<args, single, invoked, result, call, ret>>

\* Line 233 with an input left, then lines 148-151 of _load_confounds_single.
BeginSingle ==
    /\ pc = "for"
    /\ lc.next <= Len(lc.confounds_raw)
    /\ LET df == _confounds2df(lc.confounds_raw[lc.next])
           resolved == _sanitize_strategy(args.strategy)
       IN  IF ~df.returned
           THEN pc' = "raised" /\ error' = df.error /\ UNCHANGED single
           ELSE IF ~resolved.returned
                THEN pc' = "raised" /\ error' = resolved.error /\ UNCHANGED single
                ELSE /\ single' = [confounds_raw |-> df.value, strategy |-> resolved.value,
                                   confounds |-> EmptyDataFrame]
                     /\ pc' = "motion"
                     /\ UNCHANGED error
    /\ invoked' = <<>>
    /\ UNCHANGED <<args, lc, result, call, ret>>

\* LoaderStep without the test "<category> in strategy": the loader always runs.
LoaderStepUnconditional(here, next, category, outcomes) ==
    /\ pc = here
    /\ \E o \in outcomes :
            /\ invoked' = Append(invoked, category)
            /\ IF o.returned
               THEN /\ single' = [single EXCEPT !.confounds = ConcatColumns(@, o.value)]
                    /\ pc' = next
                    /\ UNCHANGED error
               ELSE /\ pc' = "raised"
                    /\ error' = o.error
                    /\ UNCHANGED single
    /\ UNCHANGED <<args, lc, result, call, ret>>

\* LoaderStep with the loader's exception caught and dropped.
LoaderStepSwallow(here, next, category, outcomes) ==
    /\ pc = here
    /\ IF category \in Range(single.strategy)
       THEN \E o \in outcomes :
                /\ invoked' = Append(invoked, category)
                /\ pc' = next
                /\ UNCHANGED error
                /\ IF o.returned
                   THEN single' = [single EXCEPT !.confounds = ConcatColumns(@, o.value)]
                   ELSE UNCHANGED single
       ELSE pc' = next /\ UNCHANGED <<single, invoked, error>>
    /\ UNCHANGED <<args, lc, result, call, ret>>

\* One "if <category> in strategy" block (lines 153-167): the loader is called
\* and what it returns is concatenated to confounds; what it raises leaves
\* load_confounds.
LoaderStep(here, next, category, outcomes) ==
    /\ pc = here
    /\ IF category \in Range(single.strategy)
       THEN \E o \in outcomes :
                /\ invoked' = Append(invoked, category)
                /\ IF o.returned
                   THEN /\ single' = [single EXCEPT !.confounds = ConcatColumns(@, o.value)]
                        /\ pc' = next
                        /\ UNCHANGED error
                   ELSE /\ pc' = "raised"
                        /\ error' = o.error
                        /\ UNCHANGED single
       ELSE pc' = next /\ UNCHANGED <<single, invoked, error>>
    /\ UNCHANGED <<args, lc, result, call, ret>>

\* Lines 153-155.
StepMotion ==
    LoaderStep("motion", "high_pass", "motion",
               _load_motion(DataFrameObj(single.confounds_raw), args.motion, args.pca_motion))

\* Lines 157-159.
StepHighPass ==
    LoaderStep("high_pass", "wm_csf", "high_pass",
               {_load_high_pass(DataFrameObj(single.confounds_raw))})

\* Lines 161-163.
StepWmCsf ==
    LoaderStep("wm_csf", "global", "wm_csf",
               {_load_wm_csf(DataFrameObj(single.confounds_raw), args.wm_csf)})

\* Lines 165-167.
StepGlobal ==
    LoaderStep("global", "return", "global",
               {_load_global(DataFrameObj(single.confounds_raw), args.global_signal)})

\* ReturnSingle with the table put at the front of confounds_out.
ReturnSinglePrepend ==
    /\ pc = "return"
    /\ lc' = [lc EXCEPT !.confounds_out = <<single.confounds>> \o @, !.next = @ + 1]
    /\ pc' = "for"
    /\ UNCHANGED <<args, single, invoked, error, result, call, ret>>

\* Line 169 and the append of line 234.
ReturnSingle ==
    /\ pc = "return"
    /\ lc' = [lc EXCEPT !.confounds_out = Append(@, single.confounds), !.next = @ + 1]
    /\ pc' = "for"
    /\ UNCHANGED <<args, single, invoked, error, result, call, ret>>

\* Line 233 with no input left, then lines 247-250.
ReturnOut ==
    /\ pc = "for"
    /\ lc.next > Len(lc.confounds_raw)
    /\ result' = IF lc.flag_single
                 THEN [type |-> "DataFrame", val |-> lc.confounds_out[1]]
                 ELSE [type |-> "list", val |-> lc.confounds_out]
    /\ pc' = "returned"
    /\ UNCHANGED <<args, lc, single, invoked, error, call, ret>>

Next ==
    \/ SanitizeConfounds
    \/ BeginSingle
    \/ StepMotion
    \/ StepHighPass
    \/ StepWmCsf
    \/ StepGlobal
    \/ ReturnSingle
    \/ ReturnOut

Spec == Init /\ [][Next]_vars

\* ------------------------------------------------------------ unit harness
\* The functions the assembler is built from, each called alone on arguments
\* drawn from its whole domain.

\* The defaults of load_confounds (lines 174-178).
DefaultArgs ==
    [confounds_raw |-> PyList(<<>>), strategy |-> PyStr("minimal"), motion |-> "full",
     pca_motion |-> PcaScale, wm_csf |-> "basic", global_signal |-> "basic"]

\* The expansion modes and a string that is none of them.
AnyModes == Modes \cup {"compcor"}

\* pca_motion in tenths: -0.5, 0, 0.5, 1 and 1.5.
AnyPca == {-5, 0, 5, PcaScale, 15}

BaseLists ==
    SeqUpTo({"csf", "white_matter", "global_signal"}, MaxBases)
    \cup {<<"trans_x", "trans_y", "trans_z", "rot_x", "rot_y", "rot_z">>}

KeywordArgs ==
    {PyList(l) : l \in SeqUpTo({"cosine", "trans", "0", "zzz"}, MaxKeywords)}
    \cup {PyStr("cosine")}

InitUnit ==
    /\ args = DefaultArgs
    /\ pc = "unit"
    /\ lc = [confounds_raw |-> <<>>, flag_single |-> FALSE, next |-> 1, confounds_out |-> <<>>]
    /\ single = [confounds_raw |-> "", strategy |-> <<>>, confounds |-> EmptyDataFrame]
    /\ invoked = <<>>
    /\ error = NoError
    /\ result = NoResult
    /\ call = Idle
    /\ ret = Raise(NoError)

\* The harness calls one function, once; the assembler's state stays put.
UnitFrame ==
    /\ pc = "unit"
    /\ call = Idle
    /\ UNCHANGED <<args, pc, lc, single, invoked, error, result>>

\* In call, after is the caller's first argument as the call leaves it.
CallAddSuffix ==
    \E params \in BaseLists, model \in AnyModes :
        /\ UnitFrame
        /\ call' = [fn |-> "_add_suffix", args |-> [params |-> params, model |-> model],
                    after |-> AddSuffixHeap(params, model).caller]
        /\ ret' = Return(_add_suffix(params, model))

CallFindConfounds ==
    \E name \in TableNames, keywords \in KeywordArgs :
        /\ UnitFrame
        /\ call' = [fn |-> "_find_confounds",
                    args |-> [confounds_raw |-> name, keywords |-> keywords], after |-> name]
        /\ ret' = _find_confounds(DataFrameObj(name), keywords)

CallLoadHighPass ==
    \E name \in TableNames :
        /\ UnitFrame
        /\ call' = [fn |-> "_load_high_pass", args |-> [confounds_raw |-> name], after |-> name]
        /\ ret' = _load_high_pass(DataFrameObj(name))

CallLoadGlobal ==
    \E name \in TableNames, global_signal \in AnyModes :
        /\ UnitFrame
        /\ call' = [fn |-> "_load_global",
                    args |-> [confounds_raw |-> name, mode |-> global_signal], after |-> name]
        /\ ret' = _load_global(DataFrameObj(name), global_signal)

CallLoadWmCsf ==
    \E name \in TableNames, wm_csf \in AnyModes :
        /\ UnitFrame
        /\ call' = [fn |-> "_load_wm_csf",
                    args |-> [confounds_raw |-> name, mode |-> wm_csf], after |-> name]
        /\ ret' = _load_wm_csf(DataFrameObj(name), wm_csf)

CallLoadMotion ==
    \E name \in TableNames, motion \in AnyModes, pca_motion \in AnyPca :
        /\ UnitFrame
        /\ call' = [fn |-> "_load_motion",
                    args |-> [confounds_raw |-> name, mode |-> motion,
                              pca_motion |-> pca_motion],
                    after |-> name]
        /\ ret' \in _load_motion(DataFrameObj(name), motion, pca_motion)

NextUnit ==
    \/ CallAddSuffix
    \/ CallFindConfounds
    \/ CallLoadHighPass
    \/ CallLoadGlobal
    \/ CallLoadWmCsf
    \/ CallLoadMotion

SpecUnit == InitUnit /\ [][NextUnit]_vars

\* ================================================================== claims
\* Properties of single functions are stated for SpecUnit, properties of
\* the assembler for Spec.

\* bases, each with suffix added.
WithSuffix(bases, suffix) == [i \in 1..Len(bases) |-> bases[i] \o suffix]

\* The expansion ordered by suffix: the bases, every _derivative1, every
\* _power2, every _derivative1_power2.
GroupedBySuffix(bases, mode) ==
    bases
    \o (IF mode \in {"derivatives", "full"} THEN WithSuffix(bases, "_derivative1") ELSE <<>>)
    \o (IF mode \in {"power2", "full"} THEN WithSuffix(bases, "_power2") ELSE <<>>)
    \o (IF mode = "full" THEN WithSuffix(bases, "_derivative1_power2") ELSE <<>>)

\* The derived names ordered by base: for each base in turn its _derivative1,
\* its _power2, its _derivative1_power2.
RECURSIVE DerivedByBase(_, _)
DerivedByBase(bases, mode) ==
    IF bases = <<>> THEN <<>>
    ELSE (IF mode \in {"derivatives", "full"} THEN <<Head(bases) \o "_derivative1">> ELSE <<>>)
         \o (IF mode \in {"power2", "full"} THEN <<Head(bases) \o "_power2">> ELSE <<>>)
         \o (IF mode = "full" THEN <<Head(bases) \o "_derivative1_power2">> ELSE <<>>)
         \o DerivedByBase(Tail(bases), mode)

\* C5 as stated: expand(base_names, mode) is grouped by suffix, not by base:
\* all bases, then _derivative1 for all bases, then _power2 for all bases,
\* then _derivative1_power2 for all bases.
C5_GroupedBySuffix ==
    call.fn = "_add_suffix" =>
        ret.value = GroupedBySuffix(call.args.params, call.args.model)

\* C5 amended: expand(base_names, mode) is all bases in their order, then the
\* derived names grouped by base: for each base in order its _derivative1
\* (modes derivatives, full), its _power2 (modes power2, full), its
\* _derivative1_power2 (mode full).
C5_GroupedByBase ==
    call.fn = "_add_suffix" =>
        ret.value = call.args.params \o DerivedByBase(call.args.params, call.args.model)

\* C5 witness: mode full on two bases; the second derived name is the first
\* base's _power2.
C5_Witness ==
    /\ call.fn = "_add_suffix"
    /\ call.args.model = "full"
    /\ Len(call.args.params) = 2
    /\ ret.value[4] = call.args.params[1] \o "_power2"

\* The number of names per base under mode.
ModeFactor(mode) ==
    CASE mode = "full" -> 4
      [] mode \in {"derivatives", "power2"} -> 2
      [] OTHER -> 1

\* C9: expand(base_names, mode) starts with base_names in their order, holds
\* len(base_names) names under basic or an unrecognised mode, twice as many
\* under derivatives and power2, four times as many under full, and leaves
\* the caller's base_names as it was.
C9_PrefixLengthNoMutation ==
    call.fn = "_add_suffix" =>
        /\ Len(ret.value) = ModeFactor(call.args.model) * Len(call.args.params)
        /\ SubSeq(ret.value, 1, Len(call.args.params)) = call.args.params
        /\ call.after = call.args.params

\* C9 witness: the six motion bases under full give 24 names.
C9_Witness ==
    /\ call.fn = "_add_suffix"
    /\ call.args.model = "full"
    /\ Len(call.args.params) = 6
    /\ Len(ret.value) = 24

\* For each keyword in turn, the columns holding it, in table order.
RECURSIVE ExpectedMatches(_, _)
ExpectedMatches(columns, keys) ==
    IF keys = <<>> THEN <<>>
    ELSE SelectSeq(columns, LAMBDA c : Contains(c, Head(keys)))
         \o ExpectedMatches(columns, Tail(keys))

\* The keywords no column holds, in keyword order.
UnmatchedKeys(columns, keys) ==
    SelectSeq(keys, LAMBDA k : \A c \in Range(columns) : ~Contains(c, k))

\* sub holds exactly the columns names of table t, in the order of names,
\* with t's rows and values.
SameColumnsAs(sub, t, names) ==
    /\ sub.columns = names
    /\ sub.index = t.index
    /\ \A i \in 1..Len(names) : sub.data[i] = t.data[ColPos(t, names[i])]

\* C10: find(table, keywords) returns, keyword by keyword and in table
\* order, every column whose name holds the keyword, duplicates kept; it
\* fails naming the first keyword without a match, and fails when keywords
\* is no list. The high-pass loader returns exactly the columns holding
\* "cosine", in table order, and fails when there is none.
C10_FindByKeyword ==
    /\ call.fn = "_find_confounds" =>
        LET columns == DataFrameObj(call.args.confounds_raw).columns
            keywords == call.args.keywords
        IN  IF keywords.type # "list"
            THEN ~ret.returned /\ ret.error = ValueError("keywords should be a list")
            ELSE IF UnmatchedKeys(columns, keywords.val) # <<>>
                 THEN /\ ~ret.returned
                      /\ ret.error =
                            ValueError("could not find any confound with the key "
                                       \o Head(UnmatchedKeys(columns, keywords.val)))
                 ELSE ret.returned /\ ret.value = ExpectedMatches(columns, keywords.val)
    /\ call.fn = "_load_high_pass" =>
        LET t == DataFrameObj(call.args.confounds_raw)
            cosines == SelectSeq(t.columns, LAMBDA c : Contains(c, "cosine"))
        IN  /\ IF cosines = <<>>
               THEN /\ ~ret.returned
                    /\ ret.error = ValueError("could not find any confound with the key cosine")
               ELSE ret.returned /\ SameColumnsAs(ret.value, t, cosines)
            /\ t.columns = <<"cosine00", "cosine01", "trans_x">>
                    => ret.returned /\ ret.value.columns = <<"cosine00", "cosine01">>

\* C10 witness: a column returned twice, once for each of two keywords.
C10_Witness ==
    /\ call.fn = "_find_confounds"
    /\ ret.returned
    /\ \E i, j \in 1..Len(ret.value) : i < j /\ ret.value[i] = ret.value[j]

\* columns are motion_pca_1 .. motion_pca_K for some K >= 1.
PcaNamed(columns) ==
    /\ Len(columns) >= 1
    /\ \A k \in 1..Len(columns) : columns[k] = "motion_pca_" \o ToString(k)

\* The names a loader requires: its base names expanded under mode.
RequiredNames(fn, mode) ==
    CASE fn = "_load_motion" ->
            _add_suffix(<<"trans_x", "trans_y", "trans_z", "rot_x", "rot_y", "rot_z">>, mode)
      [] fn = "_load_wm_csf" -> _add_suffix(<<"csf", "white_matter">>, mode)
      [] fn = "_load_global" -> _add_suffix(<<"global_signal">>, mode)

\* The names of names that are no column of t, in the order of names.
MissingNames(t, names) == SelectSeq(names, LAMBDA n : n \notin Range(t.columns))

\* pca_motion, in tenths, lies strictly inside (0, 1).
StrictlyInside(pca_motion) == 0 < pca_motion /\ pca_motion < 10

\* C3: the motion loader reduces its sub-table if and only if pca_motion is
\* strictly inside (0, 1). At 0, at 1 and outside it returns the expanded
\* raw columns with their names, order, values and rows; strictly inside,
\* what it returns has columns motion_pca_1 .. motion_pca_K, K at most the
\* number of expanded names, in place of them.
C3_ReductionIffStrictlyInside ==
    call.fn = "_load_motion" =>
        LET t == DataFrameObj(call.args.confounds_raw)
            expanded == RequiredNames("_load_motion", call.args.mode)
        IN  MissingNames(t, expanded) = <<>> =>
                IF StrictlyInside(call.args.pca_motion)
                THEN ret.returned =>
                        /\ PcaNamed(ret.value.columns)
                        /\ Len(ret.value.columns) <= Len(expanded)
                ELSE ret.returned /\ SameColumnsAs(ret.value, t, expanded)

\* C3 witness: pca_motion = 0.5 and two components returned.
C3_Witness ==
    /\ call.fn = "_load_motion"
    /\ call.args.pca_motion = 5
    /\ ret.returned
    /\ ret.value.columns = <<"motion_pca_1", "motion_pca_2">>

\* The exception of the column validator for the name par.
IsMissingConfoundError(e, par) ==
    e = ValueError("The parameter " \o par
                   \o " cannot be found in the available confounds. You may want to use a different denoising strategy'")

\* A loader that validates its required names.
ValidatingLoaders == {"_load_motion", "_load_wm_csf", "_load_global"}

\* C7 as stated: a loader fails with the missing-confound error naming the
\* first required name the table lacks and returns nothing; when the table
\* has every required name it returns exactly the required columns, in
\* expanded order, values unchanged.
C7_ValidateThenSelect ==
    call.fn \in ValidatingLoaders =>
        LET t == DataFrameObj(call.args.confounds_raw)
            required == RequiredNames(call.fn, call.args.mode)
        IN  IF MissingNames(t, required) # <<>>
            THEN ~ret.returned /\ IsMissingConfoundError(ret.error, Head(MissingNames(t, required)))
            ELSE ret.returned /\ SameColumnsAs(ret.value, t, required)

\* C7 amended: as stated, except that the motion loader called with
\* pca_motion strictly inside (0, 1) on a table that has every required name
\* does not return the required columns: it hands them to the reduction,
\* and returns the components or fails as the reduction does.
C7_ValidateThenSelectUnlessReduced ==
    call.fn \in ValidatingLoaders =>
        LET t == DataFrameObj(call.args.confounds_raw)
            required == RequiredNames(call.fn, call.args.mode)
        IN  IF MissingNames(t, required) # <<>>
            THEN ~ret.returned /\ IsMissingConfoundError(ret.error, Head(MissingNames(t, required)))
            ELSE IF call.fn = "_load_motion" /\ StrictlyInside(call.args.pca_motion)
                 THEN IF ret.returned THEN PcaNamed(ret.value.columns)
                      ELSE \A n \in Range(required) : ~IsMissingConfoundError(ret.error, n)
                 ELSE ret.returned /\ SameColumnsAs(ret.value, t, required)

\* C7 witness: the table of the six basic motion columns fails under full on
\* the first derived name, whatever pca_motion is.
C7_Witness ==
    /\ call.fn = "_load_motion"
    /\ DataFrameObj(call.args.confounds_raw).columns
            = <<"trans_x", "trans_y", "trans_z", "rot_x", "rot_y", "rot_z">>
    /\ call.args.mode = "full"
    /\ ~ret.returned
    /\ IsMissingConfoundError(ret.error, "trans_x_derivative1")

\* ---------------------------------------------------- claims on the assembler

Categories == {"motion", "high_pass", "wm_csf", "global"}

\* The categories of cats in the fixed order motion, high_pass, wm_csf, global.
Canonical(cats) ==
    SelectSeq(<<"motion", "high_pass", "wm_csf", "global">>, LAMBDA c : c \in cats)

IsPrefix(a, b) == Len(a) <= Len(b) /\ SubSeq(b, 1, Len(a)) = a

\* A preset, or a list of categories.
IsValidStrategy(strategy) ==
    \/ strategy.type = "str" /\ strategy.val \in {"minimal", "minimal_glob"}
    \/ strategy.type = "list" /\ Range(strategy.val) \subseteq Categories

\* What a valid strategy resolves to.
Resolution(strategy) ==
    IF strategy.type = "list" THEN strategy.val
    ELSE IF strategy.val = "minimal" THEN <<"motion", "high_pass", "wm_csf">>
    ELSE <<"motion", "high_pass", "wm_csf", "global">>

\* The category whose loader yields a column of this name.
CategoryOfColumn(col) ==
    CASE Contains(col, "cosine") -> "high_pass"
      [] Contains(col, "csf") \/ Contains(col, "white_matter") -> "wm_csf"
      [] Contains(col, "global_signal") -> "global"
      [] OTHER -> "motion"

\* The categories of the columns, a run of columns of one category counted once.
RECURSIVE ColumnGroups(_)
ColumnGroups(columns) ==
    IF columns = <<>> THEN <<>>
    ELSE LET rest == ColumnGroups(Tail(columns))
         IN  IF rest # <<>> /\ Head(rest) = CategoryOfColumn(Head(columns)) THEN rest
             ELSE <<CategoryOfColumn(Head(columns))>> \o rest

\* The call stands inside _load_confounds_single, past its line 151.
InSingle == pc \in {"motion", "high_pass", "wm_csf", "global", "return"}

\* C1: under a valid strategy the assembler calls the loaders of the resolved
\* strategy and no other, each at most once, in the order motion, high_pass,
\* wm_csf, global, whatever the order and the repetitions of a custom list;
\* when the input is assembled every one of them has been called and the
\* groups of columns of the output stand in that order; an empty custom list
\* gives a table without columns.
C1_LoadersInCanonicalOrder ==
    IsValidStrategy(args.strategy) =>
        LET expected == Canonical(Range(Resolution(args.strategy)))
        IN  /\ IsPrefix(invoked, expected)
            /\ pc = "return" =>
                /\ invoked = expected
                /\ ColumnGroups(single.confounds.columns) = expected
                /\ expected = <<>> => single.confounds.columns = <<>>
            /\ pc = "returned" =>
                \A i \in 1..Len(lc.confounds_out) :
                    ColumnGroups(lc.confounds_out[i].columns) = expected

\* C1 witness: the custom list [global, motion] assembled as motion, global.
C1_Witness ==
    /\ pc = "return"
    /\ args.strategy.type = "list"
    /\ args.strategy.val = <<"global", "motion">>
    /\ invoked = <<"motion", "global">>
    /\ ColumnGroups(single.confounds.columns) = <<"motion", "global">>

\* C2: the table assembled for an input has the rows of its source table,
\* as many and in the same order (stated for the inputs for which a loader
\* ran): the row labels are those of the source and every value of a row
\* stems from that row of the source.
C2_OutputKeepsRows ==
    (pc = "return" /\ invoked # <<>>) =>
        LET source == DataFrameObj(single.confounds_raw)
            out == single.confounds
        IN  /\ out.index = source.index
            /\ \A c \in 1..Len(out.columns) : \A p \in 1..Len(out.index) :
                    out.data[c][p] # NaN => out.data[c][p][3] = source.index[p]

StartsWith(s, prefix) == Len(prefix) <= Len(s) /\ SubSeq(s, 1, Len(prefix)) = prefix
EndsWith(s, suffix) ==
    Len(suffix) <= Len(s) /\ SubSeq(s, Len(s) - Len(suffix) + 1, Len(s)) = suffix

\* The kind of error a message of the strategy resolver stands for.
StrategyErrorKind(e) ==
    CASE e.msg = "strategy needs to be a string or a list of strings" -> "InvalidStrategyTypeError"
      [] EndsWith(e.msg, " is not a supported type of confounds.") -> "UnsupportedConfoundTypeError"
      [] StartsWith(e.msg, "strategy ") /\ EndsWith(e.msg, " is not supported")
            -> "UnsupportedStrategyError"
      [] OTHER -> "other"

\* The first entry of a list that is no category.
FirstNonMember(l) == Head(SelectSeq(l, LAMBDA c : c \notin Categories))

\* C4: resolve gives [motion, high_pass, wm_csf] for minimal, the same with
\* global for minimal_glob, a custom list of categories as the caller wrote
\* it; another string fails with UnsupportedStrategyError, a list with a
\* non-member with UnsupportedConfoundTypeError naming the first one,
\* anything else with InvalidStrategyTypeError; when resolve fails no loader
\* is called for the input and no output table is produced.
C4_ResolveClassifies ==
    LET s == args.strategy
    IN  /\ (IsValidStrategy(s) /\ InSingle) => single.strategy = Resolution(s)
        /\ IsValidStrategy(s) => StrategyErrorKind(error) = "other"
        /\ ~IsValidStrategy(s) =>
            /\ ~InSingle
            /\ invoked = <<>>
            /\ lc.confounds_out = <<>>
            /\ result.type # "DataFrame"
            /\ result.type = "list" => result.val = <<>>
            /\ (pc = "raised" /\ args.confounds_raw.type # "int") =>
                /\ error.type = "ValueError"
                /\ StrategyErrorKind(error) =
                        (IF s.type = "str" THEN "UnsupportedStrategyError"
                         ELSE IF s.type = "list" THEN "UnsupportedConfoundTypeError"
                         ELSE "InvalidStrategyTypeError")
                /\ s.type = "str" => error.msg = "strategy " \o s.val \o " is not supported"
                /\ s.type = "list" =>
                        error.msg = FirstNonMember(s.val) \o " is not a supported type of confounds."

\* C4 witness: [high_pass, bogus, nope] is refused for bogus.
C4_Witness ==
    /\ pc = "raised"
    /\ args.strategy.type = "list"
    /\ Len(args.strategy.val) = 3
    /\ error.msg = "bogus is not a supported type of confounds."
    /\ invoked = <<>>

\* The tables one input, processed alone under the arguments of the call,
\* can give.
TablesOf(input) ==
    {o.value : o \in {x \in _load_confounds_single(input, args.strategy, args.motion,
                                                     args.pca_motion, args.wm_csf,
                                                     args.global_signal) : x.returned}}

\* The exceptions one input, processed alone, can raise.
ErrorsOf(input) ==
    {o.error : o \in {x \in _load_confounds_single(input, args.strategy, args.motion,
                                                     args.pca_motion, args.wm_csf,
                                                     args.global_signal) : ~x.returned}}

\* The inputs as the caller ordered them.
CallerInputs ==
    IF args.confounds_raw.type = "list" THEN args.confounds_raw.val
    ELSE <<args.confounds_raw>>

\* C6: a list of n inputs that all succeed gives a list of n tables, the
\* i-th being what the i-th input gives when processed alone; one table or
\* one path outside a list gives one table, not a list; an argument that is
\* none of these fails with the invalid-input-type error before any input is
\* processed.
C6_CardinalityAndOrder ==
    /\ (pc = "returned" /\ args.confounds_raw.type = "list") =>
        /\ result.type = "list"
        /\ Len(result.val) = Len(args.confounds_raw.val)
        /\ \A i \in 1..Len(result.val) : result.val[i] \in TablesOf(args.confounds_raw.val[i])
    /\ (pc = "returned" /\ args.confounds_raw.type \in {"DataFrame", "str"}) =>
        /\ result.type = "DataFrame"
        /\ result.val \in TablesOf(args.confounds_raw)
    /\ args.confounds_raw.type \notin {"DataFrame", "str", "list"} =>
        /\ pc \in {"call", "raised"}
        /\ pc = "raised" => error = ValueError("Invalid input type")
        /\ invoked = <<>>
        /\ lc.confounds_raw = <<>> /\ lc.confounds_out = <<>>

\* C6 witness: two different inputs in a list gave two different tables.
C6_Witness ==
    /\ pc = "returned"
    /\ result.type = "list"
    /\ Len(result.val) = 2
    /\ args.confounds_raw.val[1] # args.confounds_raw.val[2]
    /\ result.val[1] # result.val[2]

\* C8: the inputs are processed one at a time in the caller's order; the
\* first failure on an input leaves load_confounds at once as that input's
\* own exception, nothing is appended for the input, nothing is returned and
\* no step follows; an input that fails when processed alone never gets an
\* output table.
C8_FailFast ==
    [][ /\ pc # "raised"
        /\ lc'.next \in {lc.next, lc.next + 1}
        /\ Len(lc'.confounds_out) = lc'.next - 1
        /\ (pc = "for" /\ pc' = "motion") =>
                single'.confounds_raw = _confounds2df(CallerInputs[lc.next]).value
        /\ pc' = "return" => TablesOf(CallerInputs[lc.next]) # {}
        /\ pc' = "raised" =>
            /\ error' # NoError
            /\ result' = NoResult
            /\ lc'.confounds_out = lc.confounds_out
            /\ pc # "call" => error' \in ErrorsOf(CallerInputs[lc.next])
      ]_vars

\* C8 witness: of two inputs the first failed in its second loader; the
\* second input was never begun.
C8_Witness ==
    /\ pc = "raised"
    /\ Len(lc.confounds_raw) = 2
    /\ lc.next = 1
    /\ Len(invoked) >= 2
    /\ lc.confounds_out = <<>>
    /\ result = NoResult

====
